---- MODULE Spec2Model ----
(***************************************************************************)
(* Model of src/mlworkflow/bokeh_utils/textarea.ts: the TextArea model and *)
(* its TextAreaView.  The host's UI event loop is single threaded, so the  *)
(* model keeps one call stack of pending statements: the head of `stack`   *)
(* is the statement that runs next, and a new event (an upstream property  *)
(* change, a keystroke, a DOM `change` event) is only taken when the stack *)
(* is empty.                                                               *)
(***************************************************************************)
EXTENDS Integers, Sequences, FiniteSets, TLC

\* ------------------------------------------------------------------ bounds
NumValues == 3   \* how many distinct text contents are explored
NumRefs   == 2   \* how many DOM element identities are cycled through

AllValues == <<"", "hello", "a", "b", "c", "d">>
Min(a, b) == IF a < b THEN a ELSE b
Values == {AllValues[i] : i \in 1..Min(NumValues, Len(AllValues))}
Placeholders == {"", "hint"}
Titles == {"", "Text"}
Names == {"", "n"}
Ids == {"1001", "1002"}

NoRef == 0       \* inputEl before the first render (field declared, not set)
NoVal == "<none>"  \* change_input's local `value` outside change_input

VARIABLES
  model,        \* the TextArea model's attributes
  given,        \* the attribute names passed to the TextArea constructor
  el,           \* children of the view's root element this.el, in order
  inputEl,      \* this.inputEl: the identity of a text-area element
  connections,  \* number of slots this view connected to model.change
  stack,        \* pending statements of the running handler, head first
  value,        \* change_input's local const `value`
  logged,       \* last message handed to logger.debug
  typed,        \* the user has typed since the last render / handled change
  event,        \* the event being (or last) handled
  shownBefore,  \* text shown by the event's target when the event began
  valueBefore,  \* model.value when the event began
  writes,       \* assignments to model properties made by the view, this event
  renders,      \* render() runs during this event
  notifs,       \* model.change notifications emitted during this event
  trace,        \* statements run during this event, in order
  hookSaw       \* model.value as seen by the base class hook

vars == <<model, given, el, inputEl, connections, stack, value, logged, typed,
          event, shownBefore, valueBefore, writes, renders, notifs, trace,
          hookSaw>>

\* ------------------------------------------------------------- the model
\* declared defaults that are not the empty string
MutDefaults == [value |-> "hello", placeholder |-> "hint"]

\* TextArea.initClass: this.define({value: [String, ""], placeholder: ...})
Defaults == [value |-> "", placeholder |-> ""]

\* new TextArea(attrs): attributes not passed take their declared default
Construct(attrs, base) ==
  [id          |-> base.id,
   title       |-> base.title,
   name        |-> base.name,
   disabled    |-> base.disabled,
   placeholder |-> IF "placeholder" \in DOMAIN attrs
                   THEN attrs.placeholder ELSE Defaults.placeholder,
   value       |-> IF "value" \in DOMAIN attrs
                   THEN attrs.value ELSE Defaults.value]

\* the partial attribute records a caller may pass
PartialAttrs ==
  {[x \in {} |-> ""]}
  \cup {[value |-> v] : v \in Values}
  \cup {[placeholder |-> p] : p \in Placeholders}
  \cup {[value |-> v, placeholder |-> p] : v \in Values, p \in Placeholders}

\* the inherited InputWidget attributes, owned by the host
BaseAttrs ==
  [id : Ids, title : Titles, name : Names, disabled : BOOLEAN]

\* -------------------------------------------------------------- the view
\* label({for: this.model.id}, this.model.title)
NewLabel(m) == [tag |-> "label", for |-> m.id, text |-> m.title]

\* a text-area created without its initial content
MutNewTextAreaNoContent(m, ref) ==
  [tag         |-> "textarea",
   ref         |-> ref,
   class       |-> "bk-widget-form-input",
   id          |-> m.id,
   name        |-> m.name,
   disabled    |-> m.disabled,
   placeholder |-> m.placeholder,
   style       |-> [minWidth |-> "90%", minHeight |-> "100%"],
   value       |-> "",
   listeners   |-> <<"change_input">>]

\* a text-area that is never rendered disabled
MutNewTextAreaEnabled(m, ref) ==
  [tag         |-> "textarea",
   ref         |-> ref,
   class       |-> "bk-widget-form-input",
   id          |-> m.id,
   name        |-> m.name,
   disabled    |-> FALSE,
   placeholder |-> m.placeholder,
   style       |-> [minWidth |-> "90%", minHeight |-> "100%"],
   value       |-> m.value,
   listeners   |-> <<"change_input">>]

\* a text-area on which the change listener is registered twice
MutNewTextAreaTwoListeners(m, ref) ==
  [tag         |-> "textarea",
   ref         |-> ref,
   class       |-> "bk-widget-form-input",
   id          |-> m.id,
   name        |-> m.name,
   disabled    |-> m.disabled,
   placeholder |-> m.placeholder,
   style       |-> [minWidth |-> "90%", minHeight |-> "100%"],
   value       |-> m.value,
   listeners   |-> <<"change_input", "change_input">>]

\* textarea({...}, this.model.value) plus addEventListener("change", ...)
NewTextArea(m, ref) ==
  [tag         |-> "textarea",
   ref         |-> ref,
   class       |-> "bk-widget-form-input",
   id          |-> m.id,
   name        |-> m.name,
   disabled    |-> m.disabled,
   placeholder |-> m.placeholder,
   style       |-> [minWidth |-> "90%", minHeight |-> "100%"],
   value       |-> m.value,
   listeners   |-> <<"change_input">>]

\* a fresh element identity, different from the one inputEl held
FreshRef(r) == (r % NumRefs) + 1

\* a render() that appends without clearing the root element first
MutRenderElNoEmpty(old, m, ref) ==
  old \o <<NewLabel(m), NewTextArea(m, ref)>>

\* empty(this.el), then appendChild(labelEl), then appendChild(this.inputEl)
RenderEl(old, m, ref) == <<NewLabel(m), NewTextArea(m, ref)>>

\* an initialize() that forgets to render
MutInitializeNoRender == <<>>

\* the statements of initialize(), after super.initialize(options)
InitializeBody == <<"render">>

\* the model property change_input assigns: this.model.value = value
MutWriteValue(m, v) == [m EXCEPT !.placeholder = v]

WriteValue(m, v) == [m EXCEPT !.value = v]

\* a change event handler that never stores the text
MutChangeInputNoWrite == <<"ci_read", "ci_log", "ci_hook">>

\* a change_input() that calls the base class hook before storing the text
MutChangeInputHookFirst == <<"ci_read", "ci_log", "ci_hook", "ci_write">>

\* the statements of change_input(), in program order
ChangeInputBody == <<"ci_read", "ci_log", "ci_write", "ci_hook">>

\* the statements a registered DOM listener runs
ListenerBody(l) == IF l = "change_input" THEN ChangeInputBody ELSE <<>>

\* the host builds a view: initialize(options), then connect_signals()
ViewConstructor == <<"initialize", "connect_signals">>

RECURSIVE Flatten(_)
Flatten(ss) == IF ss = <<>> THEN <<>> ELSE Head(ss) \o Flatten(Tail(ss))

\* n copies of the render slot, one per connection to model.change
Slots(n) == [i \in 1..n |-> "render"]

TextAreaIdx == {k \in 1..Len(el) : el[k].tag = "textarea"}
InputIdx == {k \in TextAreaIdx : el[k].ref = inputEl}
\* this.inputEl.value
InputValue == el[CHOOSE k \in InputIdx : TRUE].value

Idle == stack = <<>>

Init ==
  /\ \E attrs \in PartialAttrs, base \in BaseAttrs :
       /\ model = Construct(attrs, base)
       /\ given = DOMAIN attrs
  /\ el = <<>>
  /\ inputEl = NoRef
  /\ connections = 0
  /\ stack = ViewConstructor
  /\ value = NoVal
  /\ logged = NoVal
  /\ typed = FALSE
  /\ event = "init"
  /\ shownBefore = NoVal
  /\ valueBefore = model.value
  /\ writes = 0
  /\ renders = 0
  /\ notifs = 0
  /\ trace = <<>>
  /\ hookSaw = NoVal

\* initialize(options): super.initialize(options); this.render()
Initialize ==
  /\ stack # <<>> /\ Head(stack) = "initialize"
  /\ stack' = InitializeBody \o Tail(stack)
  /\ trace' = Append(trace, "initialize")
  /\ UNCHANGED <<model, given, el, inputEl, connections, value, logged, typed,
                 event, shownBefore, valueBefore, writes, renders, notifs,
                 hookSaw>>

\* a connect_signals() that never connects render to model.change
MutConnectSignalsNone ==
  /\ stack # <<>> /\ Head(stack) = "connect_signals"
  /\ connections' = connections
  /\ stack' = Tail(stack)
  /\ trace' = Append(trace, "connect_signals")
  /\ UNCHANGED <<model, given, el, inputEl, value, logged, typed,
                 event, shownBefore, valueBefore, writes, renders, notifs,
                 hookSaw>>

\* connect_signals(): super.connect_signals(); connect(model.change, render)
ConnectSignals ==
  /\ stack # <<>> /\ Head(stack) = "connect_signals"
  /\ connections' = connections + 1
  /\ stack' = Tail(stack)
  /\ trace' = Append(trace, "connect_signals")
  /\ UNCHANGED <<model, given, el, inputEl, value, logged, typed,
                 event, shownBefore, valueBefore, writes, renders, notifs,
                 hookSaw>>

\* render()
Render ==
  /\ stack # <<>> /\ Head(stack) = "render"
  /\ LET ref == FreshRef(inputEl) IN
       /\ el' = RenderEl(el, model, ref)
       /\ inputEl' = ref
  /\ typed' = FALSE
  /\ renders' = renders + 1
  /\ stack' = Tail(stack)
  /\ trace' = Append(trace, "render")
  /\ UNCHANGED <<model, given, connections, value, logged,
                 event, shownBefore, valueBefore, writes, notifs, hookSaw>>

\* an upstream change of one model property, dispatched by the host: the
\* change signal is emitted when the property changed (and may or may not be
\* when it was set to the value it already had)
HostSet(attr, v) ==
  /\ Idle
  /\ inputEl # NoRef
  /\ \E notify \in BOOLEAN :
       /\ (model[attr] # v) => notify
       /\ model' = [model EXCEPT ![attr] = v]
       /\ notifs' = IF notify THEN 1 ELSE 0
       /\ stack' = IF notify THEN Slots(connections) ELSE <<>>
  /\ event' = "upstream"
  /\ shownBefore' = InputValue
  /\ valueBefore' = model.value
  /\ writes' = 0
  /\ renders' = 0
  /\ trace' = <<>>
  /\ UNCHANGED <<given, el, inputEl, connections, value, logged, typed,
                 hookSaw>>

Upstream ==
  \/ \E v \in Values : HostSet("value", v)
  \/ \E v \in Placeholders : HostSet("placeholder", v)
  \/ \E v \in Titles : HostSet("title", v)
  \/ \E v \in Names : HostSet("name", v)
  \/ \E v \in BOOLEAN : HostSet("disabled", v)

\* the user types into a text-area of the view: its displayed value changes,
\* no event reaches the view yet
UserType(k, s) ==
  /\ Idle
  /\ k \in TextAreaIdx
  /\ el[k].value # s
  /\ el' = [el EXCEPT ![k].value = s]
  /\ typed' = TRUE
  /\ event' = "type"
  /\ shownBefore' = el[k].value
  /\ valueBefore' = model.value
  /\ writes' = 0 /\ renders' = 0 /\ notifs' = 0
  /\ trace' = <<>>
  /\ UNCHANGED <<model, given, inputEl, connections, stack, value, logged,
                 hookSaw>>

\* the DOM `change` event fires on a text-area of the view: every listener
\* registered on it runs, in registration order
DomChange(k) ==
  /\ Idle
  /\ k \in TextAreaIdx
  /\ stack' = Flatten([i \in 1..Len(el[k].listeners) |->
                         ListenerBody(el[k].listeners[i])])
  /\ event' = "change"
  /\ shownBefore' = el[k].value
  /\ valueBefore' = model.value
  /\ writes' = 0 /\ renders' = 0 /\ notifs' = 0
  /\ trace' = <<>>
  /\ UNCHANGED <<model, given, el, inputEl, connections, value, logged, typed,
                 hookSaw>>

\* const value = this.inputEl.value
CI_Read ==
  /\ stack # <<>> /\ Head(stack) = "ci_read"
  /\ value' = InputValue
  /\ stack' = Tail(stack)
  /\ trace' = Append(trace, "read")
  /\ UNCHANGED <<model, given, el, inputEl, connections, logged, typed,
                 event, shownBefore, valueBefore, writes, renders, notifs,
                 hookSaw>>

\* logger.debug(`widget/textarea: value = ${value}`)
CI_Log ==
  /\ stack # <<>> /\ Head(stack) = "ci_log"
  /\ logged' = "widget/textarea: value = " \o value
  /\ stack' = Tail(stack)
  /\ trace' = Append(trace, "log")
  /\ UNCHANGED <<model, given, el, inputEl, connections, value, typed,
                 event, shownBefore, valueBefore, writes, renders, notifs,
                 hookSaw>>

\* this.model.value = value: the host's property setter stores the value and
\* emits model.change synchronously, which runs every connected slot before
\* the assignment returns
CI_Write ==
  /\ stack # <<>> /\ Head(stack) = "ci_write"
  /\ \E notify \in BOOLEAN :
       /\ (model.value # value) => notify
       /\ model' = WriteValue(model, value)
       /\ notifs' = notifs + (IF notify THEN 1 ELSE 0)
       /\ stack' = (IF notify THEN Slots(connections) ELSE <<>>) \o Tail(stack)
  /\ writes' = writes + 1
  /\ trace' = Append(trace, "write")
  /\ UNCHANGED <<given, el, inputEl, connections, value, logged, typed,
                 event, shownBefore, valueBefore, renders, hookSaw>>

\* super.change_input(): the base class hook observes the model
CI_Hook ==
  /\ stack # <<>> /\ Head(stack) = "ci_hook"
  /\ hookSaw' = model.value
  /\ value' = NoVal
  /\ typed' = FALSE
  /\ stack' = Tail(stack)
  /\ trace' = Append(trace, "hook")
  /\ UNCHANGED <<model, given, el, inputEl, connections, logged,
                 event, shownBefore, valueBefore, writes, renders, notifs>>

HandlerStep ==
  \/ Initialize
  \/ ConnectSignals
  \/ Render
  \/ CI_Read
  \/ CI_Log
  \/ CI_Write
  \/ CI_Hook

Next ==
  \/ HandlerStep
  \/ Upstream
  \/ \E k \in 1..Len(el), s \in Values : UserType(k, s)
  \/ \E k \in 1..Len(el) : DomChange(k)

Spec == Init /\ [][Next]_vars

\* handlers run to completion: a started handler's statements keep running
FairSpec == Spec /\ WF_vars(HandlerStep)

\* ------------------------------------------------------------ properties
Rendered == InputIdx # {}
Last(s) == s[Len(s)]
AfterRender == trace # <<>> /\ Last(trace) = "render"
ChangeHandled == event = "change" /\ Idle
OwnSteps(t) == SelectSeq(t, LAMBDA x : x # "render")
InChangeInput ==
  stack # <<>> /\ Head(stack) \in {"ci_read", "ci_log", "ci_write", "ci_hook"}

\* C1: once change_input has finished handling a DOM change event fired
\* while the text-area displayed s, the model's value is s.
C1_WriteBack == ChangeHandled => model.value = shownBefore

C1_Witness ==
  ChangeHandled /\ shownBefore = "hello" /\ valueBefore # "hello"
  /\ model.value = "hello"

\* C2: once connected, every model change notification runs render(), and
\* after it the text-area shows the model's current value, whatever it
\* showed before.  (Upstream changes reach the view only once the host has
\* built it, that is after connect_signals() has run.)
C2_ReRender ==
  (event = "upstream" /\ Idle)
    => /\ renders = notifs
       /\ (notifs > 0 => Rendered /\ InputValue = model.value)

C2_Witness ==
  /\ event = "upstream" /\ Idle /\ connections > 0 /\ notifs = 1
  /\ renders = 1
  /\ shownBefore # valueBefore
  /\ shownBefore # model.value
  /\ InputValue = model.value

\* C3: the displayed value equals the model's value right after a render
\* and right after a change event has been fully handled; between events
\* the two differ only if the user has typed since.
C3_Sync ==
  /\ AfterRender => (Rendered /\ InputValue = model.value)
  /\ ChangeHandled => (Rendered /\ InputValue = model.value)
  /\ (Idle /\ Rendered /\ InputValue # model.value) => typed

C3_Witness ==
  /\ ChangeHandled /\ valueBefore # shownBefore
  /\ InputValue = model.value /\ ~typed

C3_Diverged == Idle /\ Rendered /\ typed /\ InputValue # model.value

\* C4: a model constructed without value and placeholder has both equal to
\* the empty string, and the first render of its view shows an empty
\* text-area.
C4_Defaults ==
  (event = "init" /\ given = {})
    => /\ model.value = ""
       /\ model.placeholder = ""
       /\ (renders > 0 => Rendered /\ InputValue = "")

C4_Witness ==
  event = "init" /\ given = {} /\ renders = 1 /\ Rendered /\ InputValue = ""

\* C5: right after every render the text-area's disabled, placeholder, id
\* and name attributes equal the model's.
C5_Attributes ==
  AfterRender =>
    \A k \in TextAreaIdx :
      /\ el[k].disabled = model.disabled
      /\ el[k].placeholder = model.placeholder
      /\ el[k].id = model.id
      /\ el[k].name = model.name

C5_Witness ==
  /\ AfterRender /\ event = "upstream" /\ Rendered
  /\ model.disabled /\ el[2].disabled
  /\ model.placeholder = "hint" /\ model.name = "n"

\* C6: when initialize() has returned the view has been rendered once, with
\* a label and a text-area showing the model's value, and no model change
\* notification has occurred.
InitializeReturned ==
  /\ event = "init"
  /\ trace # <<>>
  /\ (stack = <<>> \/ Head(stack) = "connect_signals")

C6_RenderOnInit ==
  InitializeReturned =>
    /\ renders = 1
    /\ notifs = 0
    /\ Len(el) = 2
    /\ el[1].tag = "label"
    /\ el[2].tag = "textarea"
    /\ el[2].value = model.value

C6_Witness ==
  /\ InitializeReturned /\ stack # <<>> /\ connections = 0
  /\ renders = 1 /\ model.value = "hello" /\ el[2].value = "hello"

\* C7: change_input reads, then logs, then writes the model, then calls the
\* base class hook; the hook never runs while the model holds another value
\* than the one read.
C7_StepOrder ==
  /\ (stack # <<>> /\ Head(stack) = "ci_hook")
       => /\ OwnSteps(trace) = <<"read", "log", "write">>
          /\ model.value = value
          /\ logged = "widget/textarea: value = " \o value
  /\ ChangeHandled
       => /\ OwnSteps(trace) = <<"read", "log", "write", "hook">>
          /\ hookSaw = shownBefore

C7_Witness ==
  ChangeHandled /\ valueBefore # shownBefore /\ hookSaw = shownBefore
  /\ hookSaw # valueBefore

\* C8: once rendered, the root element holds exactly one label followed by
\* exactly one text-area, inputEl refers to that text-area, and it carries
\* exactly one change listener, which calls change_input.
C8_Replace ==
  (renders > 0 \/ inputEl # NoRef) =>
    /\ Len(el) = 2
    /\ el[1].tag = "label"
    /\ el[2].tag = "textarea"
    /\ el[2].ref = inputEl
    /\ el[2].listeners = <<"change_input">>

C8_Witness ==
  /\ event = "upstream" /\ renders = 1 /\ Idle
  /\ Len(el) = 2 /\ el[2].ref = inputEl /\ inputEl # FreshRef(NoRef)

\* C9: render() writes no model property, change_input() writes only
\* value; one DOM change event causes at most one model write and at most
\* one render and its handling ends; one upstream change notification
\* causes exactly one render and no model write.
C9_Step ==
  /\ (stack # <<>> /\ Head(stack) = "render") => model' = model
  /\ InChangeInput => [model' EXCEPT !.value = model.value] = model

C9_Counts ==
  /\ event = "change" => (writes <= 1 /\ renders <= 1)
  /\ event = "upstream" => writes = 0
  /\ (event = "upstream" /\ Idle /\ notifs = 1) => renders = 1

C9_NoFeedback ==
  /\ [][C9_Step]_vars
  /\ []C9_Counts
  /\ (~Idle ~> Idle)

C9_Witness ==
  ChangeHandled /\ writes = 1 /\ renders = 1 /\ notifs = 1

\* C10: when change_input writes a value different from the model's, render
\* runs inside change_input before the base class hook, and the new
\* text-area shows the committed text, which is still there when
\* change_input has returned.
C10_Reentrant ==
  (event = "change" /\ shownBefore # valueBefore) =>
    /\ (stack # <<>> /\ Head(stack) = "ci_hook")
         => /\ renders = 1
            /\ Last(trace) = "render"
            /\ InputValue = shownBefore
    /\ Idle => /\ renders = 1
               /\ model.value = shownBefore
               /\ InputValue = shownBefore

C10_Witness ==
  /\ event = "change" /\ shownBefore # valueBefore
  /\ stack = <<"ci_hook">> /\ renders = 1
  /\ InputValue = shownBefore /\ shownBefore = "a"

====
